---------------------------- MODULE Spec2Model ----------------------------
(***************************************************************************)
(* The Pagination widget of src/pagination/src/Pagination.jsx as a state   *)
(* machine.                                                                *)
(*                                                                         *)
(* The component is a function of its props (pages, setCurrentPage) and of *)
(* two pieces of hook state (currentButton, arrOfCurrButtons).  A render   *)
(* commits the state, and the commit schedules the effects whose           *)
(* dependencies changed.  The effects of one commit run in source order    *)
(* (clean-ups first), the state updates they queue are applied by the      *)
(* following render, and so on until nothing is pending.  Every effect and *)
(* every render is a step of the model, so the states between a commit and *)
(* its effects are states of the model.                                    *)
(*                                                                         *)
(* Scheduling: a user input (click, key) or a host render (new `pages`,    *)
(* unmount) is taken up when the cascade of the previous one has drained   *)
(* (see Quiescent); JavaScript runs each handler to completion.            *)
(***************************************************************************)
EXTENDS Integers, Sequences, FiniteSets, TLC

\* Largest value of the `pages` prop the host supplies in the model.
MaxPages == 10
\* The host may also supply 0 and the negative values -1 .. -NegPages.
NegPages == 1
\* The history of one cascade counts at most this many window computations.
MaxCascade == 3

AllPages == (0 - NegPages)..MaxPages
PosPages == 1..MaxPages

\* e.key values: the four keys onKey handles and one key it does not.
Keys == {"ArrowLeft", "ArrowRight", "Home", "End", "Other"}

VARIABLES
    mounted,           \* the component instance exists
    pages,             \* prop `pages` of the last committed render
    hasCallback,       \* typeof setCurrentPage === 'function'
    currentButton,     \* hook state, committed value
    arrOfCurrButtons,  \* hook state, committed value (the displayed window)
    queuedButton,      \* queued setCurrentButton values, not yet rendered
    queuedArr,         \* queued setArrOfCurrButtons values, not yet rendered
    effects,           \* effects scheduled by the last commit, in run order
    listeners,         \* keydown listeners attached to the nav element,
                       \* each one the numberOfPages.length its closure holds
    cleanup,           \* the keyboard effect's pending clean-up closure
    calls,             \* setCurrentPage calls made by the last step
    lastNotified,      \* the last value ever passed to setCurrentPage
    lastStep,          \* history: the name of the last step taken
    lastInput,         \* history: the last user input or host render,
                       \* [op, arg] (arg: the page number of a selectPage)
    computations,      \* history: window computations since the last
                       \* input or host render
    cascadeCalls       \* history: the values passed to setCurrentPage since
                       \* the last input or host render

vars == <<mounted, pages, hasCallback, currentButton, arrOfCurrButtons,
          queuedButton, queuedArr, effects, listeners, cleanup, calls,
          lastNotified, lastStep, lastInput, computations, cascadeCalls>>

---------------------------------------------------------------------------
(* Window items: a number, or the string '...' *)

Num(n) == [kind |-> "number", num |-> n]
Ellipsis == [kind |-> "ellipsis", num |-> 0]

IsNumber(item) == item.kind = "number"

Max(a, b) == IF a >= b THEN a ELSE b
Min(a, b) == IF a <= b THEN a ELSE b

\* Array.from({ length: pages }, (_, i) => i + 1): a length below 0 is 0.
NumberOfPages(p) == [i \in 1..(IF p > 0 THEN p ELSE 0) |-> Num(i)]

NumLen(p) == Len(NumberOfPages(p))

\* ComputeWindow with the near-end test written current > total - 3.
ComputeWindowNearEndLate(p, current) ==
    LET total == Len(NumberOfPages(p)) IN
    IF total <= 7 THEN NumberOfPages(p)
    ELSE IF current <= 4 THEN
        <<Num(1), Num(2), Num(3), Num(4), Num(5), Ellipsis, Num(total)>>
    ELSE IF current > total - 3 THEN
        <<Num(1), Ellipsis, Num(total - 4), Num(total - 3), Num(total - 2),
          Num(total - 1), Num(total)>>
    ELSE
        <<Num(1), Ellipsis, Num(current - 1), Num(current), Num(current + 1),
          Ellipsis, Num(total)>>

\* ComputeWindow with the near-start test written current <= 5.
ComputeWindowNearStartWide(p, current) ==
    LET total == Len(NumberOfPages(p)) IN
    IF total <= 7 THEN NumberOfPages(p)
    ELSE IF current <= 5 THEN
        <<Num(1), Num(2), Num(3), Num(4), Num(5), Ellipsis, Num(total)>>
    ELSE IF current >= total - 3 THEN
        <<Num(1), Ellipsis, Num(total - 4), Num(total - 3), Num(total - 2),
          Num(total - 1), Num(total)>>
    ELSE
        <<Num(1), Ellipsis, Num(current - 1), Num(current), Num(current + 1),
          Ellipsis, Num(total)>>

\* ComputeWindow with the near-end test written current >= total - 1.
ComputeWindowNearEndNarrow(p, current) ==
    LET total == Len(NumberOfPages(p)) IN
    IF total <= 7 THEN NumberOfPages(p)
    ELSE IF current <= 4 THEN
        <<Num(1), Num(2), Num(3), Num(4), Num(5), Ellipsis, Num(total)>>
    ELSE IF current >= total - 1 THEN
        <<Num(1), Ellipsis, Num(total - 4), Num(total - 3), Num(total - 2),
          Num(total - 1), Num(total)>>
    ELSE
        <<Num(1), Ellipsis, Num(current - 1), Num(current), Num(current + 1),
          Ellipsis, Num(total)>>

\* The body of the window effect: temp from total and current.
ComputeWindow(p, current) ==
    LET total == Len(NumberOfPages(p)) IN
    IF total <= 7 THEN NumberOfPages(p)
    ELSE IF current <= 4 THEN
        <<Num(1), Num(2), Num(3), Num(4), Num(5), Ellipsis, Num(total)>>
    ELSE IF current >= total - 3 THEN
        <<Num(1), Ellipsis, Num(total - 4), Num(total - 3), Num(total - 2),
          Num(total - 1), Num(total)>>
    ELSE
        <<Num(1), Ellipsis, Num(current - 1), Num(current), Num(current + 1),
          Ellipsis, Num(total)>>

\* goPrev / goNext updaters.
GoPrevUpdater(p) == Max(1, p - 1)
GoNextUpdater(len, p) == Min(len, p + 1)

\* onKey with ArrowRight not clamped to the length.
OnKeyNextUnclamped(k, len, p) ==
    IF k = "ArrowLeft" THEN Max(1, p - 1)
    ELSE IF k = "ArrowRight" THEN p + 1
    ELSE IF k = "Home" THEN 1
    ELSE IF k = "End" THEN len
    ELSE p

\* onKey with ArrowLeft not clamped to 1.
OnKeyPrevUnclamped(k, len, p) ==
    IF k = "ArrowLeft" THEN p - 1
    ELSE IF k = "ArrowRight" THEN Min(len, p + 1)
    ELSE IF k = "Home" THEN 1
    ELSE IF k = "End" THEN len
    ELSE p

\* onKey with End jumping to the last index instead of the last page.
OnKeyEndShort(k, len, p) ==
    IF k = "ArrowLeft" THEN Max(1, p - 1)
    ELSE IF k = "ArrowRight" THEN Min(len, p + 1)
    ELSE IF k = "Home" THEN 1
    ELSE IF k = "End" THEN len - 1
    ELSE p

\* onKey: the new currentButton for key k, closure length len, state p.
OnKey(k, len, p) ==
    IF k = "ArrowLeft" THEN Max(1, p - 1)
    ELSE IF k = "ArrowRight" THEN Min(len, p + 1)
    ELSE IF k = "Home" THEN 1
    ELSE IF k = "End" THEN len
    ELSE p

\* A keydown runs every attached listener in attachment order.
RECURSIVE DispatchKey(_, _, _)
DispatchKey(k, ls, p) ==
    IF ls = <<>> THEN p
    ELSE DispatchKey(k, Tail(ls), OnKey(k, Head(ls), p))

\* removeEventListener: drops the listener the clean-up closure holds.
RECURSIVE RemoveListener(_, _)
RemoveListener(ls, l) ==
    IF ls = <<>> THEN <<>>
    ELSE IF Head(ls) = l THEN Tail(ls)
    ELSE <<Head(ls)>> \o RemoveListener(Tail(ls), l)

---------------------------------------------------------------------------
(* Dependency arrays: which effects a commit schedules *)

\* The window effect with the dependency array [currentButton].
WindowDepsButtonOnly(newPages, newButton) == newButton # currentButton

\* The window effect with the dependency array [pages].
WindowDepsPagesOnly(newPages, newButton) == newPages # pages

\* The window effect without a dependency array: it runs after every render.
WindowDepsAlways(newPages, newButton) == TRUE

\* [currentButton, pages]
WindowDeps(newPages, newButton) ==
    newButton # currentButton \/ newPages # pages

\* The reset effect with the dependency array [].
ResetDepsMountOnly(newPages) == FALSE

\* [pages]
ResetDeps(newPages) == newPages # pages

\* [numberOfPages.length]
KeyboardDeps(newPages) == NumLen(newPages) # NumLen(pages)

\* Effects of a re-render, clean-ups first, then bodies in source order.
ScheduledEffects(newPages, newButton) ==
    (IF KeyboardDeps(newPages) /\ cleanup # <<>>
        THEN <<"keyboardCleanup">> ELSE <<>>)
    \o (IF WindowDeps(newPages, newButton) THEN <<"window">> ELSE <<>>)
    \o (IF ResetDeps(newPages) THEN <<"reset">> ELSE <<>>)
    \o (IF KeyboardDeps(newPages) THEN <<"keyboard">> ELSE <<>>)

\* The first render with the window effect skipped.
MountEffectsNoWindow == <<"reset", "keyboard">>

\* Effects of the first render: every effect body runs.
MountEffects == <<"window", "reset", "keyboard">>

\* Nothing is pending: no effect to run and no queued state update.
Quiescent == effects = <<>> /\ queuedButton = <<>> /\ queuedArr = <<>>

---------------------------------------------------------------------------
(* History variables *)

Input(op, arg) == [op |-> op, arg |-> arg]

\* A step of the cascade: an effect or the re-render after the effects.
CascadeStep(name) ==
    /\ lastStep' = name
    /\ UNCHANGED lastInput
    /\ IF name = "window" THEN TRUE
       ELSE UNCHANGED <<computations, cascadeCalls>>

\* A user input or a host render.
InputStep(op, arg) ==
    /\ lastStep' = op
    /\ lastInput' = Input(op, arg)
    /\ computations' = 0
    /\ cascadeCalls' = <<>>

---------------------------------------------------------------------------
(* Initial state: the first render with useState(1) and useState([]) *)

InitIn(P) ==
    /\ mounted = TRUE
    /\ pages \in P
    /\ hasCallback \in BOOLEAN
    /\ currentButton = 1
    /\ arrOfCurrButtons = <<>>
    /\ queuedButton = <<>>
    /\ queuedArr = <<>>
    /\ effects = MountEffects
    /\ listeners = <<>>
    /\ cleanup = <<>>
    /\ calls = <<>>
    /\ lastNotified = <<>>
    /\ lastStep = "mount"
    /\ lastInput = Input("mount", 0)
    /\ computations = 0
    /\ cascadeCalls = <<>>

Init == InitIn(AllPages)

---------------------------------------------------------------------------
(* Effects *)

\* The window effect without the call of setCurrentPage.
WindowEffectSilent ==
    /\ CascadeStep("window")
    /\ effects # <<>>
    /\ Head(effects) = "window"
    /\ effects' = Tail(effects)
    /\ queuedArr' = Append(queuedArr, ComputeWindow(pages, currentButton))
    /\ calls' = <<>>
    /\ computations' = Min(computations + 1, MaxCascade)
    /\ UNCHANGED <<mounted, pages, hasCallback, currentButton,
                   arrOfCurrButtons, queuedButton, listeners, cleanup,
                   lastNotified, cascadeCalls>>

\* useEffect(..., [currentButton, pages]): compute the window, notify.
WindowEffect ==
    /\ CascadeStep("window")
    /\ effects # <<>>
    /\ Head(effects) = "window"
    /\ effects' = Tail(effects)
    /\ queuedArr' = Append(queuedArr, ComputeWindow(pages, currentButton))
    /\ calls' = IF hasCallback THEN <<currentButton>> ELSE <<>>
    /\ lastNotified' = IF hasCallback THEN <<currentButton>> ELSE lastNotified
    /\ computations' = Min(computations + 1, MaxCascade)
    /\ cascadeCalls' = IF Len(cascadeCalls) < MaxCascade
                         THEN cascadeCalls \o calls' ELSE cascadeCalls
    /\ UNCHANGED <<mounted, pages, hasCallback, currentButton,
                   arrOfCurrButtons, queuedButton, listeners, cleanup>>

\* useEffect(() => setCurrentButton(1), [pages]); a set to the value the
\* state already has, with nothing queued, is dropped.
ResetEffect ==
    /\ CascadeStep("reset")
    /\ effects # <<>>
    /\ Head(effects) = "reset"
    /\ effects' = Tail(effects)
    /\ queuedButton' = IF currentButton = 1 /\ queuedButton = <<>>
                         THEN queuedButton
                         ELSE Append(queuedButton, 1)
    /\ calls' = <<>>
    /\ UNCHANGED <<mounted, pages, hasCallback, currentButton,
                   arrOfCurrButtons, queuedArr, listeners, cleanup,
                   lastNotified>>

\* The keyboard effect's body: el.addEventListener('keydown', onKey),
\* onKey closing over numberOfPages.length of this render.
KeyboardEffect ==
    /\ CascadeStep("keyboard")
    /\ effects # <<>>
    /\ Head(effects) = "keyboard"
    /\ effects' = Tail(effects)
    /\ listeners' = Append(listeners, NumLen(pages))
    /\ cleanup' = <<NumLen(pages)>>
    /\ calls' = <<>>
    /\ UNCHANGED <<mounted, pages, hasCallback, currentButton,
                   arrOfCurrButtons, queuedButton, queuedArr, lastNotified>>

\* The keyboard effect returning no clean-up: the listener stays attached.
KeyboardCleanupKeeps ==
    /\ CascadeStep("keyboardCleanup")
    /\ effects # <<>>
    /\ Head(effects) = "keyboardCleanup"
    /\ effects' = Tail(effects)
    /\ cleanup' = <<>>
    /\ calls' = <<>>
    /\ UNCHANGED <<mounted, pages, hasCallback, currentButton,
                   arrOfCurrButtons, queuedButton, queuedArr, lastNotified,
                   listeners>>

\* The keyboard effect's clean-up: el.removeEventListener('keydown', onKey).
KeyboardCleanup ==
    /\ CascadeStep("keyboardCleanup")
    /\ effects # <<>>
    /\ Head(effects) = "keyboardCleanup"
    /\ effects' = Tail(effects)
    /\ listeners' = RemoveListener(listeners, cleanup[1])
    /\ cleanup' = <<>>
    /\ calls' = <<>>
    /\ UNCHANGED <<mounted, pages, hasCallback, currentButton,
                   arrOfCurrButtons, queuedButton, queuedArr, lastNotified>>

---------------------------------------------------------------------------
(* Renders *)

\* The re-render that applies the state updates the effects queued.
Render ==
    /\ CascadeStep("render")
    /\ mounted
    /\ effects = <<>>
    /\ queuedButton # <<>> \/ queuedArr # <<>>
    /\ LET newButton == IF queuedButton = <<>> THEN currentButton
                        ELSE queuedButton[Len(queuedButton)]
           newArr == IF queuedArr = <<>> THEN arrOfCurrButtons
                     ELSE queuedArr[Len(queuedArr)]
       IN /\ currentButton' = newButton
          /\ arrOfCurrButtons' = newArr
          /\ effects' = ScheduledEffects(pages, newButton)
    /\ queuedButton' = <<>>
    /\ queuedArr' = <<>>
    /\ calls' = <<>>
    /\ UNCHANGED <<mounted, pages, hasCallback, listeners, cleanup,
                   lastNotified>>

\* The host renders the widget with another value of `pages`.
SetPages(n) ==
    /\ InputStep("setPages", 0)
    /\ mounted
    /\ Quiescent
    /\ n # pages
    /\ pages' = n
    /\ effects' = ScheduledEffects(n, currentButton)
    /\ calls' = <<>>
    /\ UNCHANGED <<mounted, hasCallback, currentButton, arrOfCurrButtons,
                   queuedButton, queuedArr, listeners, cleanup, lastNotified>>

\* The host removes the widget: the effects' clean-ups are scheduled.
Unmount ==
    /\ InputStep("unmount", 0)
    /\ mounted
    /\ Quiescent
    /\ mounted' = FALSE
    /\ effects' = IF cleanup # <<>> THEN <<"keyboardCleanup">> ELSE <<>>
    /\ calls' = <<>>
    /\ UNCHANGED <<pages, hasCallback, currentButton, arrOfCurrButtons,
                   queuedButton, queuedArr, listeners, cleanup, lastNotified>>

\* The host mounts the widget again: a new instance, first render.
Mount(n, f) ==
    /\ InputStep("mount", 0)
    /\ ~mounted
    /\ Quiescent
    /\ mounted' = TRUE
    /\ pages' = n
    /\ hasCallback' = f
    /\ currentButton' = 1
    /\ arrOfCurrButtons' = <<>>
    /\ effects' = MountEffects
    /\ calls' = <<>>
    /\ lastNotified' = <<>>
    /\ UNCHANGED <<queuedButton, queuedArr, listeners, cleanup>>

---------------------------------------------------------------------------
(* User input *)

\* An event handler's setCurrentButton(v) and the render it causes; a
\* value equal to the state causes no render.
SetCurrentButton(op, arg, v) ==
    /\ InputStep(op, arg)
    /\ currentButton' = v
    /\ effects' = ScheduledEffects(pages, v)
    /\ calls' = <<>>
    /\ UNCHANGED <<mounted, pages, hasCallback, arrOfCurrButtons,
                   queuedButton, queuedArr, listeners, cleanup, lastNotified>>

\* onClick of the page button at index idx of the displayed window.
SelectPage(idx) ==
    /\ mounted
    /\ Quiescent
    /\ idx \in 1..Len(arrOfCurrButtons)
    /\ IsNumber(arrOfCurrButtons[idx])
    /\ SetCurrentButton("selectPage", arrOfCurrButtons[idx].num,
                        arrOfCurrButtons[idx].num)

\* onClick of the previous button; disabled={currentButton === 1}.
GoPrev ==
    /\ mounted
    /\ Quiescent
    /\ currentButton # 1
    /\ SetCurrentButton("goPrev", 0, GoPrevUpdater(currentButton))

\* onClick of the next button;
\* disabled={currentButton === numberOfPages.length}.
GoNext ==
    /\ mounted
    /\ Quiescent
    /\ currentButton # NumLen(pages)
    /\ SetCurrentButton("goNext", 0,
                        GoNextUpdater(NumLen(pages), currentButton))

\* A keydown event delivered to the nav element.
KeyDown(k) ==
    /\ mounted
    /\ Quiescent
    /\ SetCurrentButton(k, 0, DispatchKey(k, listeners, currentButton))

---------------------------------------------------------------------------

NextIn(P) ==
    \/ WindowEffect
    \/ ResetEffect
    \/ KeyboardEffect
    \/ KeyboardCleanup
    \/ Render
    \/ \E n \in P : SetPages(n)
    \/ Unmount
    \/ \E n \in P, f \in BOOLEAN : Mount(n, f)
    \/ \E idx \in 1..7 : SelectPage(idx)
    \/ GoPrev
    \/ GoNext
    \/ \E k \in Keys : KeyDown(k)

Next == NextIn(AllPages)

Spec == Init /\ [][Next]_vars

\* The widget under a host that only ever supplies pages >= 1.
InitPos == InitIn(PosPages)
NextPos == NextIn(PosPages)
SpecPos == InitPos /\ [][NextPos]_vars

\* The runtime runs every scheduled effect and every pending re-render.
Cascade == WindowEffect \/ ResetEffect \/ KeyboardEffect \/ KeyboardCleanup
           \/ Render
FairSpec == Spec /\ WF_vars(Cascade)

---------------------------------------------------------------------------
(* Properties *)

Last(seq) == seq[Len(seq)]

\* The steps that are user input on the widget.
ClickOps == {"selectPage", "goPrev", "goNext"}
UserOps == ClickOps \cup Keys

\* C1: in every reachable state of a widget whose host only supplies
\* pages >= 1, currentButton is an integer with 1 <= currentButton <= pages,
\* also right after `pages` changed.
C1_CurrentPageInRange ==
    mounted => currentButton \in 1..pages

\* C2: for every total >= 0 and current in 1..total the window the effect
\* computes is the four-case reference: 1..total when total <= 7, else
\* 1..5, ellipsis, total when current <= 4, else 1, ellipsis,
\* total-4..total when current >= total-3, else 1, ellipsis,
\* current-1..current+1, ellipsis, total.
PageRange(a, b) == [i \in 1..(b - a + 1) |-> Num(a + i - 1)]

RefWindow(total, current) ==
    CASE total <= 7 -> PageRange(1, total)
      [] total > 7 /\ current <= 4 ->
            PageRange(1, 5) \o <<Ellipsis>> \o PageRange(total, total)
      [] total > 7 /\ current > 4 /\ current >= total - 3 ->
            PageRange(1, 1) \o <<Ellipsis>> \o PageRange(total - 4, total)
      [] OTHER ->
            PageRange(1, 1) \o <<Ellipsis>>
            \o PageRange(current - 1, current + 1)
            \o <<Ellipsis>> \o PageRange(total, total)

\* The window effect has just run on a current inside 1..total.
ComputedInRange ==
    /\ lastStep = "window"
    /\ pages >= 0
    /\ currentButton \in 1..pages

C2_WindowIsReference ==
    /\ ComputedInRange => Last(queuedArr) = RefWindow(pages, currentButton)
    /\ (ComputedInRange /\ pages = 10 /\ currentButton = 1) =>
          Last(queuedArr) = <<Num(1), Num(2), Num(3), Num(4), Num(5),
                              Ellipsis, Num(10)>>
    /\ (ComputedInRange /\ pages = 10 /\ currentButton = 10) =>
          Last(queuedArr) = <<Num(1), Ellipsis, Num(6), Num(7), Num(8),
                              Num(9), Num(10)>>
    /\ (ComputedInRange /\ pages = 10 /\ currentButton = 5) =>
          Last(queuedArr) = <<Num(1), Ellipsis, Num(4), Num(5), Num(6),
                              Ellipsis, Num(10)>>

C2_Witness ==
    /\ ComputedInRange
    /\ pages = 10
    /\ currentButton = 5
    /\ Last(queuedArr)[6] = Ellipsis

\* C3: for total >= 1 and current in 1..total the computed window has at
\* most 7 items, exactly 7 when total > 7, starts with page 1, ends with
\* page total, and holds current, current-1 (when >= 1) and current+1
\* (when <= total) as page numbers.
Holds(w, n) == \E i \in 1..Len(w) : w[i] = Num(n)

C3_WindowShape ==
    (ComputedInRange /\ pages >= 1) =>
        LET w == Last(queuedArr) IN
        /\ Len(w) <= 7
        /\ pages > 7 => Len(w) = 7
        /\ w[1] = Num(1)
        /\ w[Len(w)] = Num(pages)
        /\ Holds(w, currentButton)
        /\ currentButton - 1 >= 1 => Holds(w, currentButton - 1)
        /\ currentButton + 1 <= pages => Holds(w, currentButton + 1)

C3_Witness ==
    /\ ComputedInRange
    /\ pages = 9
    /\ currentButton = 5
    /\ Len(Last(queuedArr)) = 7
    /\ Holds(Last(queuedArr), 4)
    /\ Holds(Last(queuedArr), 6)

\* C4: whenever the `pages` prop has changed, the widget eventually reaches
\* a state with currentButton = 1 in which the host callback, when one was
\* supplied, has just been called with 1.
C4_ResetAfterPagesChange ==
    (lastStep = "setPages") ~>
        (currentButton = 1 /\ (hasCallback => calls = <<1>>))

\* The reset has run on a widget that showed a page near the end of a long
\* list: the committed window is still the one computed before the reset.
C4_Witness ==
    /\ lastInput.op = "setPages"
    /\ lastStep = "window"
    /\ currentButton = 1
    /\ calls = <<1>>
    /\ Len(arrOfCurrButtons) = 7
    /\ arrOfCurrButtons[2] = Ellipsis

\* C5: a navigation operation applied with currentButton = c and
\* pages = n >= 1 yields exactly: selectPage(p) p, for p a page number of
\* the displayed window; stepPrev max(1, c-1); stepNext min(n, c+1);
\* jumpFirst 1; jumpLast n; and none of them changes pages.
C5_NavigationResult ==
    [][pages >= 1 =>
        /\ lastStep' = "selectPage" =>
              /\ Holds(arrOfCurrButtons, lastInput'.arg)
              /\ currentButton' = lastInput'.arg
        /\ lastStep' \in {"goPrev", "ArrowLeft"} =>
              currentButton' = (IF currentButton - 1 >= 1
                                  THEN currentButton - 1 ELSE 1)
        /\ lastStep' \in {"goNext", "ArrowRight"} =>
              currentButton' = (IF currentButton + 1 <= pages
                                  THEN currentButton + 1 ELSE pages)
        /\ lastStep' = "Home" => currentButton' = 1
        /\ lastStep' = "End" => currentButton' = pages
        /\ lastStep' \in UserOps => pages' = pages]_vars

C5_Witness ==
    /\ lastStep = "goNext"
    /\ pages = 9
    /\ currentButton = 6
    /\ effects = <<"window">>

\* C6: stepPrev at currentButton = 1 and stepNext at currentButton = pages
\* change neither currentButton nor the displayed window, and schedule no
\* effect, so that no call of the host callback results.
C6_BoundarySteps ==
    [][(\/ lastStep' \in {"goPrev", "ArrowLeft"} /\ currentButton = 1
        \/ lastStep' \in {"goNext", "ArrowRight"} /\ currentButton = pages)
       => /\ UNCHANGED <<currentButton, arrOfCurrButtons, queuedButton,
                         queuedArr>>
          /\ effects' = <<>>
          /\ calls' = <<>>]_vars

C6_Witness ==
    /\ mounted
    /\ lastStep = "ArrowLeft"
    /\ currentButton = 1
    /\ pages = 8
    /\ Quiescent

\* C7: a keydown has the effect of the navigation operation it stands for:
\* ArrowLeft that of goPrev, ArrowRight that of goNext, Home sets 1, End
\* sets pages (pages >= 1); any other key changes neither currentButton nor
\* the window and causes no call of the host callback.
C7_KeysAreOperations ==
    [][/\ lastStep' = "ArrowLeft" =>
             currentButton' = GoPrevUpdater(currentButton)
       /\ lastStep' = "ArrowRight" =>
             currentButton' = GoNextUpdater(NumLen(pages), currentButton)
       /\ lastStep' = "Home" => currentButton' = 1
       /\ (lastStep' = "End" /\ pages >= 1) => currentButton' = pages
       /\ lastStep' = "Other" =>
             /\ UNCHANGED <<currentButton, arrOfCurrButtons, queuedButton,
                            queuedArr>>
             /\ effects' = <<>>
             /\ calls' = <<>>]_vars

C7_Witness ==
    /\ lastStep = "End"
    /\ pages = 10
    /\ currentButton = 10
    /\ effects = <<"window">>

\* C8: at most one keydown listener is attached at a time, none is attached
\* once an unmount has completed, and whenever the widget takes input the
\* attached listener holds the length of the current pages.
C8_OneCurrentListener ==
    /\ Len(listeners) <= 1
    /\ (~mounted /\ effects = <<>>) => listeners = <<>>
    /\ (mounted /\ Quiescent) => listeners = <<NumLen(pages)>>

C8_Witness ==
    /\ mounted
    /\ Quiescent
    /\ lastInput.op = "setPages"
    /\ pages = 3
    /\ listeners = <<3>>

\* C9: in every state in which the widget takes an input event the
\* displayed window is the one computed from the current pages and
\* currentButton.
C9_WindowIsCurrent ==
    (mounted /\ Quiescent) =>
        arrOfCurrButtons = ComputeWindow(pages, currentButton)

C9_Witness ==
    /\ mounted
    /\ Quiescent
    /\ lastInput.op \in UserOps
    /\ pages = 10
    /\ currentButton = 5
    /\ arrOfCurrButtons[3] = Num(4)

\* C10: whenever nothing is pending, the last value passed to the host
\* callback is currentButton.
C10_HostHoldsCurrentPage ==
    (mounted /\ Quiescent /\ hasCallback) => lastNotified = <<currentButton>>

C10_Witness ==
    /\ mounted
    /\ Quiescent
    /\ hasCallback
    /\ lastInput.op = "selectPage"
    /\ currentButton = 4
    /\ lastNotified = <<4>>

\* The navigation operations: every user input but an unhandled key.
NavOps == UserOps \ {"Other"}

\* C11 (as claimed): with pages >= 1, every navigation action, by click or
\* key, results in a call of the host callback: it schedules the window
\* effect, the only place that calls setCurrentPage.
C11_EveryNavigationNotifies ==
    [][(lastStep' \in NavOps /\ hasCallback /\ pages >= 1)
          => effects' = <<"window">>]_vars

\* C11 (amended): a navigation action schedules the window effect exactly
\* when it changes currentButton, and every run of the window effect calls
\* the host callback, when one was supplied, with currentButton.
C11_ChangingNavigationNotifies ==
    /\ [][lastStep' \in NavOps =>
            effects' = (IF currentButton' # currentButton
                          THEN <<"window">> ELSE <<>>)]_vars
    /\ [](lastStep = "window" =>
            calls = (IF hasCallback THEN <<currentButton>> ELSE <<>>))

C11_Witness ==
    /\ lastStep = "window"
    /\ lastInput.op = "End"
    /\ hasCallback
    /\ pages = 10
    /\ currentButton = 10
    /\ calls = <<10>>

\* C12: on mount, before any user input or host render, the window
\* computation runs once and the host is notified exactly once, with 1;
\* without a callback the computation still runs and no call is made.
C12_MountNotifiesOnce ==
    (mounted /\ lastInput.op = "mount") =>
        /\ computations <= 1
        /\ cascadeCalls \in {<<>>, <<1>>}
        /\ Quiescent =>
              /\ computations = 1
              /\ cascadeCalls = (IF hasCallback THEN <<1>> ELSE <<>>)
              /\ arrOfCurrButtons = ComputeWindow(pages, 1)

C12_Witness ==
    /\ mounted
    /\ lastInput.op = "mount"
    /\ Quiescent
    /\ hasCallback
    /\ computations = 1
    /\ cascadeCalls = <<1>>
    /\ lastNotified = <<1>>

\* C13: with pages <= 0 the widget is inert: once nothing is pending the
\* window holds no page item, and no navigation operation moves
\* currentButton to, or notifies the host of, a value that is no page
\* number (a value below 1).
C13_InertWithoutPages ==
    (mounted /\ pages <= 0) =>
        /\ Quiescent =>
              \A i \in 1..Len(arrOfCurrButtons) :
                  ~IsNumber(arrOfCurrButtons[i])
        /\ lastInput.op \in NavOps =>
              /\ currentButton >= 1
              /\ \A i \in 1..Len(calls) : calls[i] >= 1

\* C14: every value passed to the host callback lies in 1..pages for the
\* pages in force at the call; after pages changed from N to M >= 1 with
\* currentButton = c > M the host is never notified with c.
C14_CallsInRange ==
    \A i \in 1..Len(calls) : calls[i] \in 1..pages

\* The page numbers of window w lie in 1..n.
NumbersInRange(w, n) ==
    \A i \in 1..Len(w) : IsNumber(w[i]) => w[i].num \in 1..n

\* The page numbers of w are at least 1 and strictly increasing, and every
\* ellipsis stands between two page numbers that differ by at least 2 (so
\* no two ellipses are adjacent).
WindowShape(w) ==
    /\ \A i \in 1..Len(w) : IsNumber(w[i]) => w[i].num >= 1
    /\ \A i, j \in 1..Len(w) :
          (i < j /\ IsNumber(w[i]) /\ IsNumber(w[j])) => w[i].num < w[j].num
    /\ \A i \in 1..Len(w) :
          ~IsNumber(w[i]) =>
              /\ 1 < i
              /\ i < Len(w)
              /\ IsNumber(w[i - 1])
              /\ IsNumber(w[i + 1])
              /\ w[i + 1].num - w[i - 1].num >= 2

\* C15 (as claimed): in every reachable state with pages >= 1 the window,
\* displayed or just computed, is well formed for the current pages.
C15_WindowAlwaysWellFormed ==
    (mounted /\ pages >= 1) =>
        /\ WindowShape(arrOfCurrButtons)
        /\ NumbersInRange(arrOfCurrButtons, pages)
        /\ \A k \in 1..Len(queuedArr) :
              WindowShape(queuedArr[k]) /\ NumbersInRange(queuedArr[k], pages)

\* C15 (amended): in every reachable state the displayed window and every
\* computed window have the shape above; every window the effect computes,
\* also on the not-yet-reset currentButton, has its page numbers within the
\* current number of pages; the displayed window has them there whenever
\* nothing is pending.
C15_WindowWellFormed ==
    /\ WindowShape(arrOfCurrButtons)
    /\ \A k \in 1..Len(queuedArr) :
          /\ WindowShape(queuedArr[k])
          /\ NumbersInRange(queuedArr[k], NumLen(pages))
    /\ (mounted /\ Quiescent) =>
          NumbersInRange(arrOfCurrButtons, NumLen(pages))

\* The window effect has run on a currentButton beyond the new pages.
C15_Witness ==
    /\ lastInput.op = "setPages"
    /\ lastStep = "window"
    /\ pages = 8
    /\ currentButton > pages
    /\ Last(queuedArr) = <<Num(1), Ellipsis, Num(4), Num(5), Num(6), Num(7),
                           Num(8)>>

\* C16: after any single input or host render the cascade of effects and
\* re-renders ends: it runs at most two window computations and makes at
\* most two calls of the host callback, the widget becomes quiescent again
\* with the displayed window computed from the current pages and
\* currentButton, and the re-render that only applies the window state
\* schedules no effect.
C16_CascadeTerminates ==
    /\ [](computations <= 2 /\ Len(cascadeCalls) <= 2)
    /\ []<>Quiescent
    /\ []((mounted /\ Quiescent) =>
            arrOfCurrButtons = ComputeWindow(pages, currentButton))
    /\ [][(lastStep' = "render" /\ currentButton' = currentButton)
            => effects' = <<>>]_vars

\* A cascade with two computations has ended: a pages change on a widget
\* that did not show page 1.
C16_Witness ==
    /\ mounted
    /\ Quiescent
    /\ lastInput.op = "setPages"
    /\ computations = 2
    /\ Len(cascadeCalls) = 2
    /\ cascadeCalls[2] = 1
    /\ currentButton = 1

=============================================================================
